---- MODULE Spec2Model ----
(***************************************************************************)
(* Logbase storage engine (manjeet13/logbase): write-ahead log, MemTable,  *)
(* SSTables with Bloom filters, flush, compaction, startup and shutdown.   *)
(*                                                                         *)
(* Byte strings (keys, values) are sequences of byte values 0..255 and are *)
(* compared as Go compares strings: bytewise, lexicographically.           *)
(* The data directory is modelled by three maps: the SSTable data files,   *)
(* their ".bloom" sidecar files and the WAL segment files.                 *)
(***************************************************************************)
EXTENDS Integers, Sequences, FiniteSets, TLC

VARIABLES
    up,          \* an Engine value exists (the process runs)
    memtable,    \* Engine.memtable: [data, bytes]
    sstables,    \* Engine.sstables: sequence of [Path, Bloom]
    nextTable,   \* Engine.nextTable
    segment,     \* WAL.segment: id of the active segment
    walErr,      \* WAL.writer carries a sticky write error (bufio.Writer)
    walOpen,     \* WAL.file is an open file
    sstFiles,    \* disk: SSTable path -> sequence of [key, value] records
    bloomFiles,  \* disk: SSTable path -> contents of its ".bloom" file
    walFiles,    \* disk: WAL segment id -> sequence of WAL records
    last,        \* the most recent call: [op, key, err, after]
    faults,      \* number of calls that met an injected I/O failure
    acked,       \* history: key -> most recent acknowledged mutation
    clean,       \* history: no call has returned an error so far
    orderly,     \* history: no session has ended by a crash so far
    restarts,    \* history: number of NewEngine calls after the first
    prior,       \* history: the SSTables the last call compacted, if it did
    preClose,    \* history: key -> result of Get just before the last Close
    maxSSTables, \* package variable maxSSTables (cfg.MaxSSTablesBeforeComp)
    pc,          \* concurrent callers: goroutine -> its position in its call
    call,        \* goroutine -> the call it serves: [id, op, recs, n]
    snap,        \* goroutine -> locals of flushMemTable: [data, table]
    buf,         \* WAL.writer: the writes buffered by the bufio.Writer
    mu,          \* WAL.mu: the goroutine holding it, 0 when free
    walBytes,    \* disk: WAL segment id -> the writes that reached the file
    ackedKeys,   \* history: keys of the concurrent calls that returned nil
    started      \* history: number of concurrent calls started

vars == <<up, memtable, sstables, nextTable, segment, walErr, walOpen, sstFiles,
          bloomFiles, walFiles, last, faults, acked, clean, orderly, restarts,
          prior, preClose, maxSSTables, pc, call, snap, buf, mu, walBytes,
          ackedKeys, started>>

\* the state of the concurrent callers
concVars == <<pc, call, snap, buf, mu, walBytes, ackedKeys, started>>

----------------------------------------------------------------------------
(* Bounds of the model and the inputs the operations are driven with.      *)

MaxSegment == 2      \* Spec: no call is issued once the WAL segment id reached it
MaxSegmentIO == 2    \* SpecIO: the same
MaxSegmentLong == 9  \* SpecLong: the same
MaxWalLen == 2       \* no append once the active segment holds that many records
MaxFaults == 1       \* I/O failures injected over one behaviour

KeyEmpty == <<>>
KeyA == <<97>>
KeyHi == <<255, 97>>
Keys == {KeyA, KeyHi}
AllKeys == Keys \cup {KeyEmpty}

NoValue == <<>>
Val1 == <<49>>
Val2 == <<50>>
Values == {NoValue, Val1, Val2}

\* Range bounds tried by the range claims; <<255>> is the "\xff" of compactAll.
RangeBounds == AllKeys \cup {<<98>>, <<255>>}

----------------------------------------------------------------------------
(* Byte strings.                                                           *)

RECURSIVE StrLess(_, _)
StrLess(s, t) ==
    IF t = <<>> THEN FALSE
    ELSE IF s = <<>> THEN TRUE
    ELSE IF Head(s) # Head(t) THEN Head(s) < Head(t)
    ELSE StrLess(Tail(s), Tail(t))

StrLeq(s, t) == s = t \/ StrLess(s, t)

\* sort.Strings over a set of keys: the ascending sequence of its elements
RECURSIVE SortStrings(_)
SortStrings(S) ==
    IF S = {} THEN <<>>
    ELSE LET m == CHOOSE k \in S : \A o \in S : StrLeq(k, o)
         IN <<m>> \o SortStrings(S \ {m})

EmptyMap == [k \in {} |-> NoValue]

----------------------------------------------------------------------------
(* Bloom filter.                                                           *)

BloomBytes == 1024          \* NewBloomFilter(1024, 3): size of bits
BloomK == 3                 \* NewBloomFilter(1024, 3): hash functions
BloomBits == BloomBytes * 8 \* uint64(len(b.bits)) * 8

\* FNV-1a, 64 bit: offset basis 14695981039346656037, prime 1099511628211.
\* The filter only ever uses hash % BloomBits, and BloomBits = 2^13 divides
\* 2^64, so the residue is computed directly: xor and multiplication modulo
\* 2^13 need the low 13 bits of the operands only.
FnvOffsetLow == 805         \* 14695981039346656037 % 8192
FnvPrimeLow == 435          \* 1099511628211 % 8192

RECURSIVE BitXor(_, _)
BitXor(a, b) ==
    IF a = 0 THEN b
    ELSE IF b = 0 THEN a
    ELSE (((a % 2) + (b % 2)) % 2) + 2 * BitXor(a \div 2, b \div 2)

RECURSIVE FnvWrite(_, _)
FnvWrite(h, bytes) ==
    IF bytes = <<>> THEN h
    ELSE FnvWrite((BitXor(h, Head(bytes)) * FnvPrimeLow) % BloomBits, Tail(bytes))

\* BloomFilter.hash, reduced modulo BloomBits
hash(key, seed) == FnvWrite(FnvWrite(FnvOffsetLow, <<seed % 256>>), key)

\* the bit indexes hash(key, i) % (len(bits) * 8), i < k, for the model's keys
HashIdx == [key \in AllKeys |-> [i \in 0..(BloomK - 1) |-> hash(key, i) % BloomBits]]

\* A filter is [nil, bits, k]: bits is the set of indexes of the bits set.
NewBloomFilter == [nil |-> FALSE, bits |-> {}, k |-> BloomK]
NilBloom == [nil |-> TRUE, bits |-> {}, k |-> 0]
ZeroBloom == [nil |-> FALSE, bits |-> {}, k |-> 0]    \* var bf BloomFilter

\* BloomFilter.Add setting the bit of the first probe only
BloomAddOneProbe(b, key) ==
    [b EXCEPT !.bits = @ \cup {HashIdx[key][0]}]

BloomAdd(b, key) ==
    [b EXCEPT !.bits = @ \cup {HashIdx[key][i] : i \in 0..(b.k - 1)}]

MightContain(b, key) ==
    \A i \in 0..(b.k - 1) : HashIdx[key][i] \in b.bits

RECURSIVE BloomAddAll(_, _)
BloomAddAll(b, keys) ==
    IF keys = <<>> THEN b ELSE BloomAddAll(BloomAdd(b, Head(keys)), Tail(keys))

\* Contents of a ".bloom" file: an encoded filter, or a file that was created
\* and never completely written (Save returned an error after os.Create).
BloomSave(b) == [valid |-> TRUE, bits |-> b.bits, k |-> b.k]
BrokenBloomFile == [valid |-> FALSE, bits |-> {}, k |-> 0]

\* LoadBloomFilter as loadSSTables uses it (the error is dropped): no file
\* gives nil, an undecodable file gives the zero BloomFilter, whose k = 0
\* makes MightContain true for every key.
LoadBloomFilter(files, path) ==
    IF path \notin DOMAIN files THEN NilBloom
    ELSE IF ~files[path].valid THEN ZeroBloom
    ELSE [nil |-> FALSE, bits |-> files[path].bits, k |-> files[path].k]

----------------------------------------------------------------------------
(* MemTable.                                                               *)

NewMemTable == [data |-> EmptyMap, bytes |-> 0]

MemPut(m, key, value) ==
    LET had == key \in DOMAIN m.data
        b0 == IF had THEN m.bytes - Len(m.data[key]) ELSE m.bytes
    IN [data |-> [k \in DOMAIN m.data \cup {key} |->
                      IF k = key THEN value ELSE m.data[k]],
        bytes |-> b0 + Len(key) + Len(value)]

MemGet(m, key) ==
    IF key \in DOMAIN m.data THEN [val |-> m.data[key], ok |-> TRUE]
    ELSE [val |-> NoValue, ok |-> FALSE]

MemDelete(m, key) ==
    IF key \in DOMAIN m.data
    THEN [data |-> [k \in DOMAIN m.data \ {key} |-> m.data[k]],
          bytes |-> m.bytes - Len(m.data[key])]
    ELSE m

MemSize(m) == m.bytes

Snapshot(m) == m.data

MemRange(m, start, end) ==
    [k \in {x \in DOMAIN m.data : StrLeq(start, x) /\ StrLeq(x, end)} |-> m.data[k]]

----------------------------------------------------------------------------
(* SSTable files.                                                          *)

\* "sst_%06d.dat" and "sst_compacted_%06d.dat" as [compacted, n]
FlushPath(n) == [compacted |-> FALSE, n |-> n]
CompactedPath(n) == [compacted |-> TRUE, n |-> n]

\* Lexical order of the file names: '0'..'9' sort before 'c', and the
\* zero-padded numbers (below 10^6) sort as numbers.
PathLess(p, q) ==
    \/ ~p.compacted /\ q.compacted
    \/ p.compacted = q.compacted /\ p.n < q.n

RECURSIVE SortPaths(_)
SortPaths(S) ==
    IF S = {} THEN <<>>
    ELSE LET m == CHOOSE p \in S : \A o \in S : o = p \/ PathLess(p, o)
         IN <<m>> \o SortPaths(S \ {m})

\* the records WriteSSTable writes for data: keys ascending
SSTRecords(data) ==
    LET keys == SortStrings(DOMAIN data)
    IN [i \in 1..Len(keys) |-> [key |-> keys[i], value |-> data[keys[i]]]]

\* the filter WriteSSTable builds for data
SSTBloom(data) == BloomAddAll(NewBloomFilter, SortStrings(DOMAIN data))

\* SSTable.Get on the records of a file: linear scan, first match
RECURSIVE ScanGet(_, _, _)
ScanGet(recs, i, key) ==
    IF i > Len(recs) THEN [val |-> NoValue, ok |-> FALSE]
    ELSE IF recs[i].key = key THEN [val |-> recs[i].value, ok |-> TRUE]
    ELSE ScanGet(recs, i + 1, key)

\* SSTable.Get: a file that cannot be opened is an error, which Engine.Get
\* drops, keeping ok = false
SSTableGet(files, path, key) ==
    IF path \notin DOMAIN files THEN [val |-> NoValue, ok |-> FALSE]
    ELSE ScanGet(files[path], 1, key)

\* SSTable.Range on the records of a file: skip below start, stop above end
RECURSIVE ScanRange(_, _, _, _, _)
ScanRange(recs, i, start, end, result) ==
    IF i > Len(recs) THEN result
    ELSE IF StrLess(recs[i].key, start) THEN ScanRange(recs, i + 1, start, end, result)
    ELSE IF StrLess(end, recs[i].key) THEN result
    ELSE ScanRange(recs, i + 1, start, end,
                   [k \in DOMAIN result \cup {recs[i].key} |->
                       IF k = recs[i].key THEN recs[i].value ELSE result[k]])

\* SSTable.Range: [err, data]
SSTableRange(files, path, start, end) ==
    IF path \notin DOMAIN files THEN [err |-> TRUE, data |-> EmptyMap]
    ELSE [err |-> FALSE, data |-> ScanRange(files[path], 1, start, end, EmptyMap)]

\* for k, v := range data { if _, exists := into[k]; !exists { into[k] = v } }
MergeMissing(into, data) ==
    [k \in DOMAIN into \cup DOMAIN data |->
        IF k \in DOMAIN into THEN into[k] ELSE data[k]]

\* for k, v := range m { if len(v) == 0 { delete(m, k) } }
DropEmpty(m) == [k \in {x \in DOMAIN m : Len(m[x]) # 0} |-> m[k]]

----------------------------------------------------------------------------
(* Write-ahead log.  The engine and the directory are handled as one       *)
(* record s: mem, tabs, next, seg, werr (engine) and sst, bloom, wal       *)
(* (disk), with err the error the call under way returns and prior the     *)
(* tables and records a compaction of that call has read.                  *)

PutRecord == 1
DeleteRecord == 2

\* I/O failures a call can be made to meet
Faults == {"none", "wal", "sst_create", "bloom_save"}

\* WAL.nextSegmentID
nextSegmentID(wal) ==
    IF DOMAIN wal = {} THEN 0
    ELSE (CHOOSE m \in DOMAIN wal : \A o \in DOMAIN wal : o <= m) + 1

\* WAL.openSegment: O_CREATE|O_APPEND keeps the records of an existing file;
\* a new bufio.Writer has no error
openSegment(s, id) ==
    [s EXCEPT !.wal = [i \in DOMAIN s.wal \cup {id} |->
                          IF i \in DOMAIN s.wal THEN s.wal[i] ELSE <<>>],
              !.seg = id,
              !.werr = FALSE,
              !.wopen = TRUE]

\* appendRecord(s) followed by writer.Flush(): the records reach the active
\* segment, or the writer fails and keeps failing (bufio.Writer returns its
\* first error from every later write and flush)
WALAppend(s, recs, fault) ==
    IF fault = "wal" \/ s.werr
    THEN [s EXCEPT !.werr = TRUE, !.err = TRUE]
    ELSE [s EXCEPT !.wal[s.seg] = @ \o recs]

AppendPut(s, key, value, fault) ==
    WALAppend(s, <<[Type |-> PutRecord, Key |-> key, Value |-> value]>>, fault)

AppendDelete(s, key, fault) ==
    WALAppend(s, <<[Type |-> DeleteRecord, Key |-> key, Value |-> NoValue]>>, fault)

\* AppendBatch: one record per entry, in the order the map iteration gives
AppendBatch(s, order, entries, fault) ==
    WALAppend(s, [i \in 1..Len(order) |->
                     [Type |-> PutRecord, Key |-> order[i], Value |-> entries[order[i]]]],
              fault)

\* appendRecord writes a record in five parts: type, key length, key, value
\* length, value
PiecesPerRecord == 5

\* WAL.Replay: [records, err].  A segment file is a sequence of records; a
\* record cut short by the end of the file carries have, the number of its
\* parts that are in the file.  io.EOF on the read of a type byte ends the
\* loop; every other failed read returns (nil, err).  io.ReadFull of a key or
\* value of length 0 succeeds at the end of the file.
RECURSIVE ReplayFrom(_, _, _)
ReplayFrom(file, i, records) ==
    IF i > Len(file) THEN [records |-> records, err |-> FALSE]
    ELSE LET r == file[i]
             have == IF "have" \in DOMAIN r THEN r.have ELSE PiecesPerRecord
             failed == [records |-> <<>>, err |-> TRUE]
         IN IF have < 2 THEN failed
            ELSE IF have < 3 /\ Len(r.Key) > 0 THEN failed
            ELSE IF have < 4 THEN failed
            ELSE IF have < 5 /\ Len(r.Value) > 0 THEN failed
            ELSE ReplayFrom(file, i + 1,
                            Append(records, [Type |-> r.Type, Key |-> r.Key,
                                             Value |-> r.Value]))

Replay(s) == ReplayFrom(s.wal[s.seg], 1, <<>>)

\* WAL.Rotate
Rotate(s) == openSegment(s, s.seg + 1)

\* WAL.Truncate
Truncate(s, before) ==
    [s EXCEPT !.wal = [i \in {x \in DOMAIN s.wal : ~(x < before)} |-> s.wal[i]]]

----------------------------------------------------------------------------
(* Engine.                                                                 *)

MemTableFlushThreshold == 3     \* cfg.MemTableFlushSize of this model
MaxSSTables == 4

Absent == [val |-> NoValue, ok |-> FALSE]

\* WriteSSTable: [s, table]; s.err when os.Create or Bloom.Save failed.
\* The data file is complete before the filter is saved.
WriteSSTable(s, path, data, createFails, saveFails) ==
    IF createFails THEN [s |-> [s EXCEPT !.err = TRUE], table |-> [Path |-> path, Bloom |-> NilBloom]]
    ELSE
      LET bf == SSTBloom(data)
          withData == [p \in DOMAIN s.sst \cup {path} |->
                          IF p = path THEN SSTRecords(data) ELSE s.sst[p]]
          withBloom == [p \in DOMAIN s.bloom \cup {path} |->
                          IF p = path
                          THEN (IF saveFails THEN BrokenBloomFile ELSE BloomSave(bf))
                          ELSE s.bloom[p]]
      IN [s |-> [s EXCEPT !.sst = withData, !.bloom = withBloom, !.err = saveFails],
          table |-> [Path |-> path, Bloom |-> bf]]

\* Engine.compactAll
RECURSIVE compactMerge(_, _, _)
compactMerge(s, i, merged) ==
    IF i < 1 THEN [err |-> FALSE, data |-> merged]
    ELSE LET r == SSTableRange(s.sst, s.tabs[i].Path, <<>>, <<255>>)
         IN IF r.err THEN [err |-> TRUE, data |-> merged]
            ELSE compactMerge(s, i - 1, MergeMissing(merged, r.data))

\* fault "compact_create": os.Create fails in the WriteSSTable of the compaction
compactAll(s, fault) ==
    LET m == compactMerge(s, Len(s.tabs), EmptyMap)
    IN IF m.err THEN [s EXCEPT !.err = TRUE]
       ELSE
         LET merged == DropEmpty(m.data)
             read == [i \in 1..Len(s.tabs) |->
                         [Path |-> s.tabs[i].Path, recs |-> s.sst[s.tabs[i].Path]]]
             path == CompactedPath(s.next)
             w == WriteSSTable(s, path, merged, fault = "compact_create", FALSE)
             old == {s.tabs[i].Path : i \in 1..Len(s.tabs)}
         IN IF w.s.err THEN w.s
            ELSE [w.s EXCEPT
                    !.prior = read,
                    !.sst = [p \in DOMAIN w.s.sst \ old |-> w.s.sst[p]],
                    !.tabs = <<w.table>>,
                    !.next = s.next + 1]

\* Engine.maybeCompact compacting only above MaxSSTables
maybeCompactAboveMax(s, fault) ==
    IF Len(s.tabs) <= MaxSSTables THEN s ELSE compactAll(s, fault)

\* Engine.maybeCompact
maybeCompact(s, fault) ==
    IF Len(s.tabs) < MaxSSTables THEN s ELSE compactAll(s, fault)

\* Engine.flushMemTable
flushMemTable(s, fault) ==
    LET snapshot == Snapshot(s.mem)
    IN IF DOMAIN snapshot = {} THEN s
       ELSE
         LET w == WriteSSTable(s, FlushPath(s.next), snapshot,
                               fault = "sst_create", fault = "bloom_save")
         IN IF w.s.err THEN w.s
            ELSE
              LET a == [w.s EXCEPT !.tabs = Append(@, w.table),
                                   !.next = @ + 1,
                                   !.mem = NewMemTable]
                  r == Rotate(a)
                  t == Truncate(r, r.seg - 1)
              IN maybeCompact(t, fault)

flushIfNeeded(s, fault) ==
    IF MemSize(s.mem) >= MemTableFlushThreshold THEN flushMemTable(s, fault) ELSE s

\* Engine.Put with the memory table written before the WAL append
EnginePutMemFirst(s, key, value, fault) ==
    LET a == AppendPut([s EXCEPT !.mem = MemPut(s.mem, key, value)], key, value, fault)
    IN IF a.err THEN a ELSE flushIfNeeded(a, fault)

\* Engine.Put
EnginePut(s, key, value, fault) ==
    LET a == AppendPut(s, key, value, fault)
    IN IF a.err THEN a
       ELSE flushIfNeeded([a EXCEPT !.mem = MemPut(a.mem, key, value)], fault)

\* Engine.Delete
EngineDelete(s, key, fault) ==
    LET a == AppendDelete(s, key, fault)
    IN IF a.err THEN a
       ELSE flushIfNeeded([a EXCEPT !.mem = MemDelete(a.mem, key)], fault)

RECURSIVE MemPutAll(_, _, _)
MemPutAll(m, order, entries) ==
    IF order = <<>> THEN m
    ELSE MemPutAll(MemPut(m, Head(order), entries[Head(order)]), Tail(order), entries)

\* Engine.BatchPut
EngineBatchPut(s, order, entries, fault) ==
    LET a == AppendBatch(s, order, entries, fault)
    IN IF a.err THEN a
       ELSE flushIfNeeded([a EXCEPT !.mem = MemPutAll(a.mem, order, entries)], fault)

\* Engine.Get
RECURSIVE GetFromTables(_, _, _)
GetFromTables(s, i, key) ==
    IF i < 1 THEN Absent
    ELSE LET table == s.tabs[i]
         IN IF ~table.Bloom.nil /\ ~MightContain(table.Bloom, key)
            THEN GetFromTables(s, i - 1, key)
            ELSE LET r == SSTableGet(s.sst, table.Path, key)
                 IN IF r.ok THEN r ELSE GetFromTables(s, i - 1, key)

EngineGet(s, key) ==
    LET m == MemGet(s.mem, key)
    IN IF m.ok THEN m ELSE GetFromTables(s, Len(s.tabs), key)

\* Engine.ReadKeyRange: [err, data]
RECURSIVE RangeFromTables(_, _, _, _, _)
RangeFromTables(s, i, start, end, result) ==
    IF i < 1 THEN [err |-> FALSE, data |-> result]
    ELSE LET r == SSTableRange(s.sst, s.tabs[i].Path, start, end)
         IN IF r.err THEN [err |-> TRUE, data |-> EmptyMap]
            ELSE RangeFromTables(s, i - 1, start, end, MergeMissing(result, r.data))

ReadKeyRange(s, start, end) ==
    LET r == RangeFromTables(s, Len(s.tabs), start, end, MemRange(s.mem, start, end))
    IN IF r.err THEN r ELSE [err |-> FALSE, data |-> DropEmpty(r.data)]

\* WAL.Close: flushes the writer and, unless the flush failed, closes the file
WALClose(s) == IF s.werr THEN [s EXCEPT !.err = TRUE] ELSE [s EXCEPT !.wopen = FALSE]

\* Engine.Close
EngineClose(s, fault) ==
    LET f == IF MemSize(s.mem) > 0 THEN flushMemTable(s, fault) ELSE s
    IN IF f.err THEN f ELSE WALClose(f)

\* OpenWAL
OpenWAL(s) == openSegment(s, nextSegmentID(s.wal))

\* Engine.loadSSTables
loadSSTables(s) ==
    LET files == SortPaths(DOMAIN s.sst)
    IN [s EXCEPT !.tabs = [i \in 1..Len(files) |->
                              [Path |-> files[i], Bloom |-> LoadBloomFilter(s.bloom, files[i])]],
                 !.next = Len(files)]

RECURSIVE ApplyRecords(_, _)
ApplyRecords(m, records) ==
    IF records = <<>> THEN m
    ELSE LET r == Head(records)
         IN ApplyRecords(IF r.Type = PutRecord THEN MemPut(m, r.Key, r.Value)
                         ELSE MemDelete(m, r.Key),
                         Tail(records))

\* NewEngine over the directory of s
NewEngine(s) ==
    LET w == OpenWAL([s EXCEPT !.mem = NewMemTable, !.tabs = <<>>, !.next = 0, !.err = FALSE])
        l == loadSSTables(w)
        r == Replay(l)
    IN IF r.err THEN [l EXCEPT !.err = TRUE]
       ELSE [l EXCEPT !.mem = ApplyRecords(NewMemTable, r.records)]

----------------------------------------------------------------------------
(* The state machine: one action per engine call, plus the process crash.  *)

S == [mem |-> memtable, tabs |-> sstables, next |-> nextTable, seg |-> segment,
      wopen |-> walOpen,
      werr |-> walErr, sst |-> sstFiles, bloom |-> bloomFiles, wal |-> walFiles,
      err |-> FALSE, prior |-> <<>>]

EmptyDir == [mem |-> NewMemTable, tabs |-> <<>>, next |-> 0, seg |-> 0,
             wopen |-> FALSE,
             werr |-> FALSE, sst |-> <<>>, bloom |-> <<>>, wal |-> <<>>,
             err |-> FALSE, prior |-> <<>>]

Install(r) ==
    /\ memtable' = r.mem
    /\ sstables' = r.tabs
    /\ nextTable' = r.next
    /\ segment' = r.seg
    /\ walErr' = r.werr
    /\ walOpen' = r.wopen
    /\ sstFiles' = r.sst
    /\ bloomFiles' = r.bloom
    /\ walFiles' = r.wal
    /\ prior' = r.prior

\* the inputs of Put, Delete and BatchPut, and the orders a map iterates in
PutInputs == AllKeys \X Values
DeleteKeys == AllKeys
Batches == {[k \in Keys |-> IF k = KeyA THEN Val1 ELSE Val2]}
Orders(D) == {o \in [1..Cardinality(D) -> D] : \A i, j \in 1..Cardinality(D) : o[i] = o[j] => i = j}

\* NewEngineWithConfig: the values of cfg.MaxSSTablesBeforeComp the engine is
\* constructed with (LOGBASE_MAX_SSTABLES; config.Load gives 4 when it is unset)
MaxSSTablesConfigs == {2, 4}

\* concurrent callers (net/http serves every request in its own goroutine)
Threads == {1, 2}
NoCall == [id |-> 0, op |-> "-", recs |-> <<>>, n |-> 0]
NoSnap == [data |-> EmptyMap, table |-> [Path |-> FlushPath(0), Bloom |-> NilBloom]]

\* preClose is kept from a Close to the NewEngine that follows it
NoResults == [k \in AllKeys |-> Absent]

Mutation(kind, val) == [kind |-> kind, val |-> val]
NoMutation == Mutation("none", NoValue)

CanCall(n) ==
    /\ up
    /\ Len(walFiles[segment]) + n <= MaxWalLen

CanFail(fault) == fault # "none" => faults < MaxFaults

Returned(op, key, r, fault) ==
    /\ last' = [op |-> op, key |-> key, err |-> r.err, after |-> "-"]
    /\ faults' = IF fault # "none" /\ r.err THEN faults + 1 ELSE faults
    /\ clean' = (clean /\ ~r.err)

\* nothing has been called yet
InitHistory ==
    /\ faults = 0
    /\ acked = [k \in AllKeys |-> NoMutation]
    /\ clean = TRUE
    /\ orderly = TRUE
    /\ restarts = 0
    /\ preClose = NoResults
    /\ maxSSTables \in MaxSSTablesConfigs
    /\ pc = [t \in Threads |-> "idle"]
    /\ call = [t \in Threads |-> NoCall]
    /\ snap = [t \in Threads |-> NoSnap]
    /\ buf = <<>>
    /\ mu = 0
    /\ walBytes = [i \in DOMAIN NewEngine(EmptyDir).wal |-> <<>>]
    /\ ackedKeys = {}
    /\ started = 0

Init ==
    /\ up = TRUE
    /\ LET r == NewEngine(EmptyDir)
       IN /\ memtable = r.mem
          /\ sstables = r.tabs
          /\ nextTable = r.next
          /\ segment = r.seg
          /\ walErr = r.werr
          /\ walOpen = r.wopen
          /\ sstFiles = r.sst
          /\ bloomFiles = r.bloom
          /\ walFiles = r.wal
          /\ prior = r.prior
    /\ last = [op |-> "NewEngine", key |-> KeyEmpty, err |-> FALSE, after |-> "-"]
    /\ InitHistory

Put(key, value, fault) ==
    /\ CanCall(1)
    /\ CanFail(fault)
    /\ LET r == EnginePut(S, key, value, fault)
       IN /\ Install(r)
          /\ Returned("Put", key, r, fault)
          /\ acked' = IF r.err THEN acked ELSE [acked EXCEPT ![key] = Mutation("put", value)]
    /\ preClose' = NoResults
    /\ UNCHANGED <<up, orderly, restarts, maxSSTables>>
    /\ UNCHANGED concVars

Delete(key, fault) ==
    /\ CanCall(1)
    /\ CanFail(fault)
    /\ LET r == EngineDelete(S, key, fault)
       IN /\ Install(r)
          /\ Returned("Delete", key, r, fault)
          /\ acked' = IF r.err THEN acked ELSE [acked EXCEPT ![key] = Mutation("del", NoValue)]
    /\ preClose' = NoResults
    /\ UNCHANGED <<up, orderly, restarts, maxSSTables>>
    /\ UNCHANGED concVars

BatchPut(entries, order, fault) ==
    /\ CanCall(Len(order))
    /\ CanFail(fault)
    /\ LET r == EngineBatchPut(S, order, entries, fault)
       IN /\ Install(r)
          /\ Returned("BatchPut", KeyEmpty, r, fault)
          /\ acked' = IF r.err THEN acked
                      ELSE [k \in AllKeys |->
                              IF k \in DOMAIN entries THEN Mutation("put", entries[k])
                              ELSE acked[k]]
    /\ preClose' = NoResults
    /\ UNCHANGED <<up, orderly, restarts, maxSSTables>>
    /\ UNCHANGED concVars

\* Engine.Close, after which the process ends
Close(fault) ==
    /\ up
    /\ CanFail(fault)
    /\ LET r == EngineClose(S, fault)
       IN /\ sstFiles' = r.sst
          /\ bloomFiles' = r.bloom
          /\ walFiles' = r.wal
          /\ walOpen' = r.wopen
          /\ Returned("Close", KeyEmpty, r, fault)
    /\ preClose' = [k \in AllKeys |-> EngineGet(S, k)]
    /\ up' = FALSE
    /\ memtable' = NewMemTable
    /\ sstables' = <<>>
    /\ nextTable' = 0
    /\ segment' = 0
    /\ walErr' = FALSE
    /\ prior' = <<>>
    /\ UNCHANGED <<acked, orderly, restarts, maxSSTables>>
    /\ UNCHANGED concVars

\* the process dies between two calls: memory is lost, the files stay
Crash ==
    /\ up
    /\ up' = FALSE
    /\ memtable' = NewMemTable
    /\ sstables' = <<>>
    /\ nextTable' = 0
    /\ segment' = 0
    /\ walErr' = FALSE
    /\ walOpen' = FALSE
    /\ last' = [op |-> "Crash", key |-> KeyEmpty, err |-> FALSE, after |-> "-"]
    /\ orderly' = FALSE
    /\ preClose' = NoResults
    /\ prior' = <<>>
    /\ UNCHANGED <<sstFiles, bloomFiles, walFiles, faults, acked, clean, restarts,
                   maxSSTables>>
    /\ UNCHANGED concVars

\* NewEngine over the directory the last session left
Open ==
    /\ ~up
    /\ LET r == NewEngine([EmptyDir EXCEPT !.sst = sstFiles, !.bloom = bloomFiles,
                                           !.wal = walFiles])
       IN /\ up' = ~r.err
          /\ Install(r)
          /\ last' = [op |-> "NewEngine", key |-> KeyEmpty, err |-> r.err,
                      after |-> last.op]
    /\ restarts' = restarts + 1
    /\ UNCHANGED <<faults, acked, clean, orderly, preClose, maxSSTables>>
    /\ UNCHANGED concVars

\* no call is issued once the WAL segment id has reached lim
Within(lim) == IF up THEN segment < lim ELSE nextSegmentID(walFiles) <= lim

\* Every call with every input of the model, without I/O failures: short
\* lives of the directory.
Next ==
    /\ Within(MaxSegment)
    /\ \/ \E kv \in PutInputs : Put(kv[1], kv[2], "none")
       \/ \E key \in DeleteKeys : Delete(key, "none")
       \/ \E entries \in Batches :
              \E order \in Orders(DOMAIN entries) : BatchPut(entries, order, "none")
       \/ Close("none")
       \/ Crash
       \/ Open

Spec == Init /\ [][Next]_vars

\* The calls with I/O failures: a call may meet one of Faults, MaxFaults
\* times over a behaviour.
IOPuts == {<<KeyA, Val1>>, <<KeyHi, Val2>>}

NextIO ==
    /\ Within(MaxSegmentIO)
    /\ \/ \E kv \in IOPuts, fault \in Faults : Put(kv[1], kv[2], fault)
       \/ \E fault \in Faults : Delete(KeyA, fault)
       \/ \E entries \in Batches, fault \in Faults :
              BatchPut(entries, SortStrings(DOMAIN entries), fault)
       \/ \E fault \in Faults : Close(fault)
       \/ Crash
       \/ Open

SpecIO == Init /\ [][NextIO]_vars

\* A narrow workload without I/O failures: long lives of the directory, through
\* compactions and restarts.
LongPuts == {<<KeyA, Val2>>}

NextLong ==
    /\ Within(MaxSegmentLong)
    /\ \/ \E kv \in LongPuts : Put(kv[1], kv[2], "none")
       \/ \E entries \in Batches :
              BatchPut(entries, SortStrings(DOMAIN entries), "none")
       \/ Close("none")
       \/ Crash
       \/ Open

SpecLong == Init /\ [][NextLong]_vars

----------------------------------------------------------------------------
(* Concurrent callers.  The HTTP handlers call one Engine from concurrent  *)
(* goroutines; the Engine has no lock of its own, MemTable locks each of   *)
(* its methods, and of the WAL only AppendBatch and Close lock WAL.mu.     *)
(* A call is followed statement by statement; the statements of            *)
(* WriteSSTable, of Rotate and of Truncate with maybeCompact are taken     *)
(* together.  A write to the bufio.Writer is [id, rec, part]: write part   *)
(* (1..5: type, key length, key, value length, value) of record rec of     *)
(* call id.                                                                *)

MaxCalls == 2        \* SpecConc: concurrent calls started over one behaviour

\* the variables the concurrent steps leave alone
seqHistory == <<up, walErr, walOpen, last, faults, acked, clean, orderly, restarts,
                preClose, maxSSTables>>

\* what each goroutine is asked: goroutine 1 the Put that reaches the flush
\* threshold or a batch, goroutine 2 a Put that does not reach it
ConcPuts == [t \in Threads |-> IF t = 1 THEN {<<KeyHi, Val1>>} ELSE {<<KeyA, Val1>>}]
ConcBatches == [t \in Threads |-> IF t = 1 THEN Batches ELSE {}]

CallKeys(c) == {c.recs[i].Key : i \in 1..Len(c.recs)}

Goto(t, next) == pc' = [pc EXCEPT ![t] = next]

\* the call of goroutine t returns nil
ReturnNil(t) ==
    /\ pc' = [pc EXCEPT ![t] = "idle"]
    /\ ackedKeys' = ackedKeys \cup CallKeys(call[t])
    /\ call' = [call EXCEPT ![t] = NoCall]
    /\ snap' = [snap EXCEPT ![t] = NoSnap]

\* the segment files after a step that made the directory hold the ids of wal
KeepSegments(wal) ==
    [i \in DOMAIN wal |-> IF i \in DOMAIN walBytes THEN walBytes[i] ELSE <<>>]

\* Engine.Put entered: e.wal.AppendPut is about to write
StartPut(t, key, value) ==
    /\ up /\ pc[t] = "idle" /\ started < MaxCalls
    /\ started' = started + 1
    /\ call' = [call EXCEPT ![t] =
                   [id |-> started + 1, op |-> "Put", n |-> 0,
                    recs |-> <<[Type |-> PutRecord, Key |-> key, Value |-> value]>>]]
    /\ Goto(t, "append")
    /\ UNCHANGED <<snap, buf, mu, walBytes, ackedKeys>>
    /\ UNCHANGED <<memtable, sstables, nextTable, segment, sstFiles, bloomFiles,
                   walFiles, prior>>
    /\ UNCHANGED seqHistory

\* Engine.BatchPut entered: AppendBatch has taken w.mu
StartBatch(t, entries) ==
    /\ up /\ pc[t] = "idle" /\ started < MaxCalls
    /\ mu = 0
    /\ mu' = t
    /\ started' = started + 1
    /\ LET order == SortStrings(DOMAIN entries)
       IN call' = [call EXCEPT ![t] =
                      [id |-> started + 1, op |-> "BatchPut", n |-> 0,
                       recs |-> [i \in 1..Len(order) |->
                                    [Type |-> PutRecord, Key |-> order[i],
                                     Value |-> entries[order[i]]]]]]
    /\ Goto(t, "append")
    /\ UNCHANGED <<snap, buf, walBytes, ackedKeys>>
    /\ UNCHANGED <<memtable, sstables, nextTable, segment, sstFiles, bloomFiles,
                   walFiles, prior>>
    /\ UNCHANGED seqHistory

\* appendRecord, or the loop of AppendBatch: the next write to w.writer
WritePiece(t) ==
    /\ up /\ pc[t] = "append"
    /\ LET c == call[t]
           total == PiecesPerRecord * Len(c.recs)
       IN /\ buf' = Append(buf, [id |-> c.id,
                                 rec |-> (c.n \div PiecesPerRecord) + 1,
                                 part |-> (c.n % PiecesPerRecord) + 1])
          /\ call' = [call EXCEPT ![t].n = c.n + 1]
          /\ Goto(t, IF c.n + 1 = total THEN "flush" ELSE "append")
    /\ UNCHANGED <<snap, mu, walBytes, ackedKeys, started>>
    /\ UNCHANGED <<memtable, sstables, nextTable, segment, sstFiles, bloomFiles,
                   walFiles, prior>>
    /\ UNCHANGED seqHistory

\* w.writer.Flush() at the end of AppendPut and AppendBatch: everything the
\* writer buffered reaches the active segment; AppendBatch then unlocks w.mu
WalFlush(t) ==
    /\ up /\ pc[t] = "flush"
    /\ walBytes' = [walBytes EXCEPT ![segment] = @ \o buf]
    /\ buf' = <<>>
    /\ mu' = IF call[t].op = "BatchPut" THEN 0 ELSE mu
    /\ Goto(t, "apply")
    /\ UNCHANGED <<call, snap, ackedKeys, started>>
    /\ UNCHANGED <<memtable, sstables, nextTable, segment, sstFiles, bloomFiles,
                   walFiles, prior>>
    /\ UNCHANGED seqHistory

\* e.memtable.Put, for every entry of a batch
MemApply(t) ==
    /\ up /\ pc[t] = "apply"
    /\ LET recs == call[t].recs
           order == [i \in 1..Len(recs) |-> recs[i].Key]
           entries == [k \in CallKeys(call[t]) |->
                          recs[CHOOSE i \in 1..Len(recs) : recs[i].Key = k].Value]
       IN memtable' = MemPutAll(memtable, order, entries)
    /\ Goto(t, "check")
    /\ UNCHANGED <<call, snap, buf, mu, walBytes, ackedKeys, started>>
    /\ UNCHANGED <<sstables, nextTable, segment, sstFiles, bloomFiles, walFiles, prior>>
    /\ UNCHANGED seqHistory

\* if e.memtable.Size() >= MemTableFlushThreshold
CheckSize(t) ==
    /\ up /\ pc[t] = "check"
    /\ IF MemSize(memtable) >= MemTableFlushThreshold
       THEN Goto(t, "snapshot") /\ UNCHANGED <<call, snap, ackedKeys>>
       ELSE ReturnNil(t)
    /\ UNCHANGED <<buf, mu, walBytes, started>>
    /\ UNCHANGED <<memtable, sstables, nextTable, segment, sstFiles, bloomFiles,
                   walFiles, prior>>
    /\ UNCHANGED seqHistory

\* flushMemTable: snapshot := e.memtable.Snapshot()
TakeSnapshot(t) ==
    /\ up /\ pc[t] = "snapshot"
    /\ IF DOMAIN Snapshot(memtable) = {}
       THEN ReturnNil(t)
       ELSE /\ snap' = [snap EXCEPT ![t].data = Snapshot(memtable)]
            /\ Goto(t, "write")
            /\ UNCHANGED <<call, ackedKeys>>
    /\ UNCHANGED <<buf, mu, walBytes, started>>
    /\ UNCHANGED <<memtable, sstables, nextTable, segment, sstFiles, bloomFiles,
                   walFiles, prior>>
    /\ UNCHANGED seqHistory

\* flushMemTable: WriteSSTable(path, snapshot) with the path of e.nextTable
WriteTable(t) ==
    /\ up /\ pc[t] = "write"
    /\ LET w == WriteSSTable(S, FlushPath(nextTable), snap[t].data, FALSE, FALSE)
       IN /\ sstFiles' = w.s.sst
          /\ bloomFiles' = w.s.bloom
          /\ snap' = [snap EXCEPT ![t].table = w.table]
    /\ Goto(t, "install")
    /\ UNCHANGED <<call, buf, mu, walBytes, ackedKeys, started>>
    /\ UNCHANGED <<memtable, sstables, nextTable, segment, walFiles, prior>>
    /\ UNCHANGED seqHistory

\* flushMemTable: append the table, e.nextTable++, e.memtable = NewMemTable()
InstallTable(t) ==
    /\ up /\ pc[t] = "install"
    /\ sstables' = Append(sstables, snap[t].table)
    /\ nextTable' = nextTable + 1
    /\ memtable' = NewMemTable
    /\ Goto(t, "rotate")
    /\ UNCHANGED <<call, snap, buf, mu, walBytes, ackedKeys, started>>
    /\ UNCHANGED <<segment, sstFiles, bloomFiles, walFiles, prior>>
    /\ UNCHANGED seqHistory

\* flushMemTable: e.wal.Rotate(), which does not take w.mu: the writer is
\* flushed to the old segment and a new writer opened on the next one
RotateStep(t) ==
    /\ up /\ pc[t] = "rotate"
    /\ LET r == Rotate(S)
       IN /\ walFiles' = r.wal
          /\ segment' = r.seg
          /\ walBytes' = [i \in DOMAIN r.wal |->
                             IF i = segment THEN walBytes[i] \o buf
                             ELSE IF i \in DOMAIN walBytes THEN walBytes[i]
                             ELSE <<>>]
    /\ buf' = <<>>
    /\ Goto(t, "truncate")
    /\ UNCHANGED <<call, snap, mu, ackedKeys, started>>
    /\ UNCHANGED <<memtable, sstables, nextTable, sstFiles, bloomFiles, prior>>
    /\ UNCHANGED seqHistory

\* flushMemTable: e.wal.Truncate(e.wal.segment - 1), e.maybeCompact(), return
FinishFlush(t) ==
    /\ up /\ pc[t] = "truncate"
    /\ LET r == maybeCompact(Truncate(S, segment - 1), "none")
       IN /\ Install(r)
          /\ walBytes' = KeepSegments(r.wal)
    /\ ReturnNil(t)
    /\ UNCHANGED <<buf, mu, started>>
    /\ UNCHANGED seqHistory

NextConc ==
    \E t \in Threads :
        \/ \E kv \in ConcPuts[t] : StartPut(t, kv[1], kv[2])
        \/ \E entries \in ConcBatches[t] : StartBatch(t, entries)
        \/ WritePiece(t)
        \/ WalFlush(t)
        \/ MemApply(t)
        \/ CheckSize(t)
        \/ TakeSnapshot(t)
        \/ WriteTable(t)
        \/ InstallTable(t)
        \/ RotateStep(t)
        \/ FinishFlush(t)

\* the engine of the concurrent callers is constructed with the default
\* configuration
InitConc == Init /\ maxSSTables = MaxSSTables

SpecConc == InitConc /\ [][NextConc]_vars

----------------------------------------------------------------------------
(* WAL.Replay over the segment files a crash can leave: whole records,     *)
(* followed or not by a record the end of the file cuts short.  NewEngine  *)
(* is taken at its call of wal.Replay(), on a WAL whose active segment is  *)
(* such a file.                                                            *)

MaxReplayLen == 2    \* SpecReplay: whole records in the replayed segment

ReplayRecords ==
    {[Type |-> PutRecord, Key |-> KeyA, Value |-> Val1],
     [Type |-> PutRecord, Key |-> KeyA, Value |-> NoValue],
     [Type |-> DeleteRecord, Key |-> KeyA, Value |-> NoValue],
     [Type |-> PutRecord, Key |-> KeyEmpty, Value |-> Val1]}

WholeFiles ==
    UNION {[1..n -> ReplayRecords] : n \in 0..MaxReplayLen}

\* r with only its first have parts in the file; a record without value bytes
\* is whole once its value length is written
CutRecords ==
    {[Type |-> r.Type, Key |-> r.Key, Value |-> r.Value, have |-> h] :
        r \in ReplayRecords, h \in 1..(PiecesPerRecord - 1)}
    \ {c \in [Type : {PutRecord, DeleteRecord}, Key : AllKeys, Value : Values,
              have : {PiecesPerRecord - 1}] : Len(c.Value) = 0}

ReplayFiles ==
    WholeFiles \cup {Append(f, c) : f \in WholeFiles, c \in CutRecords}

InitReplay ==
    /\ up = FALSE
    /\ memtable = NewMemTable
    /\ sstables = <<>>
    /\ nextTable = 0
    /\ segment = 0
    /\ walErr = FALSE
    /\ walOpen = TRUE
    /\ sstFiles = <<>>
    /\ bloomFiles = <<>>
    /\ \E f \in ReplayFiles : walFiles = [i \in {0} |-> f]
    /\ prior = <<>>
    /\ last = [op |-> "OpenWAL", key |-> KeyEmpty, err |-> FALSE, after |-> "-"]
    /\ InitHistory
    /\ maxSSTables = MaxSSTables

\* NewEngine: records, err := wal.Replay(); on an error return nil, err;
\* else apply every record to the memory table and return the engine
ReplayStep ==
    /\ ~up
    /\ last.op = "OpenWAL"
    /\ LET r == Replay(S)
       IN /\ last' = [op |-> "Replay", key |-> KeyEmpty, err |-> r.err, after |-> "-"]
          /\ up' = ~r.err
          /\ memtable' = IF r.err THEN memtable
                         ELSE ApplyRecords(NewMemTable, r.records)
          /\ clean' = (clean /\ ~r.err)
    /\ UNCHANGED <<sstables, nextTable, segment, walErr, walOpen, sstFiles, bloomFiles,
                   walFiles, prior, faults, acked, orderly, restarts, preClose,
                   maxSSTables>>
    /\ UNCHANGED concVars

NextReplay == ReplayStep

SpecReplay == InitReplay /\ [][NextReplay]_vars

----------------------------------------------------------------------------
(* One session in which the compaction of a flush may fail: the narrow     *)
(* workload, long enough for a fourth flush and the calls after it.        *)

MaxSegmentCompact == 6   \* SpecCompact: no call once the WAL segment id reached it

CompactFaults == {"none", "compact_create"}

NextCompact ==
    /\ Within(MaxSegmentCompact)
    /\ \/ \E kv \in LongPuts, fault \in CompactFaults : Put(kv[1], kv[2], fault)
       \/ \E fault \in CompactFaults : Delete(KeyA, fault)
       \/ \E entries \in Batches, fault \in CompactFaults :
              BatchPut(entries, SortStrings(DOMAIN entries), fault)
       \/ \E fault \in CompactFaults : Close(fault)

SpecCompact == Init /\ [][NextCompact]_vars

----------------------------------------------------------------------------
(* What the calls have acknowledged, for the claims below.                 *)

\* key has a value: its most recent acknowledged mutation wrote a non-empty value
Live(key) == acked[key].kind = "put" /\ acked[key].val # NoValue

Found(value) == [val |-> value, ok |-> TRUE]

\* one session on a new directory, in which every call returned nil
FirstSession == up /\ clean /\ restarts = 0

InRange(key, start, end) == StrLeq(start, key) /\ StrLeq(key, end)

\* the keys of the records of a file, and the file as a map
RecKeys(recs) == {recs[i].key : i \in 1..Len(recs)}
RecMap(recs) == [k \in RecKeys(recs) |-> (CHOOSE i \in 1..Len(recs) : recs[i].key = k)]
RecValue(recs, key) == recs[RecMap(recs)[key]].value

----------------------------------------------------------------------------
(* C1: in a session where every call succeeded, right after Delete(K)      *)
(* returned nil for a non-empty key K, Get(K) reports the key absent.      *)
C1_DeleteThenGetAbsent ==
    (FirstSession /\ last.op = "Delete" /\ ~last.err /\ last.key # KeyEmpty)
        => ~EngineGet(S, last.key).ok

(* C2: in a session where every call succeeded, Get(K) returns (V, true)   *)
(* for every key K whose most recent mutation wrote the non-empty value V. *)
C2_GetReturnsLatestWrite ==
    FirstSession =>
        \A key \in Keys : Live(key) => EngineGet(S, key) = Found(acked[key].val)

(* C3: right after NewEngine on the directory a crashed session left, Get  *)
(* returns the most recently written value of every live key.              *)
C3_CrashRecoveryRestoresWrites ==
    (up /\ clean /\ last.op = "NewEngine" /\ last.after = "Crash")
        => \A key \in Keys : Live(key) => EngineGet(S, key) = Found(acked[key].val)

(* C4: when every session so far ended by a Close that returned nil, then  *)
(* right after NewEngine every key has the Get result it had just before   *)
(* that Close.                                                             *)
C4_CloseReopenKeepsGets ==
    (up /\ clean /\ orderly /\ last.op = "NewEngine" /\ last.after = "Close")
        => \A key \in Keys : EngineGet(S, key) = preClose[key]

(* C5: in a session where every call succeeded, ReadKeyRange(start, end)   *)
(* returns exactly the keys of [start, end] that have a value, each with   *)
(* its newest value: a key deleted after it was flushed is not returned.   *)
C5_RangeReturnsLiveKeys ==
    FirstSession =>
        \A start \in RangeBounds, end \in RangeBounds :
            LET r == ReadKeyRange(S, start, end)
                want == {k \in AllKeys : InRange(k, start, end) /\ Live(k)}
            IN /\ ~r.err
               /\ r.data = [k \in want |-> acked[k].val]

(* C6: right after a call that compacted, the engine has one SSTable; its  *)
(* file holds exactly the keys of the compacted SSTables whose entry in    *)
(* the highest-generation SSTable holding them is non-empty, each with     *)
(* that value, and no empty value.                                         *)
NewestHolding(read, key) ==
    CHOOSE i \in 1..Len(read) :
        /\ key \in RecKeys(read[i].recs)
        /\ \A j \in 1..Len(read) :
               key \in RecKeys(read[j].recs) => read[j].Path.n <= read[i].Path.n

CompactionResult(read) ==
    LET keys == UNION {RecKeys(read[i].recs) : i \in 1..Len(read)}
        newest == [k \in keys |-> RecValue(read[NewestHolding(read, k)].recs, k)]
    IN [k \in {x \in keys : newest[x] # NoValue} |-> newest[k]]

C6_CompactionKeepsLiveKeys ==
    (FirstSession /\ prior # <<>>) =>
        /\ Len(sstables) = 1
        /\ sstables[1].Path \in DOMAIN sstFiles
        /\ LET recs == sstFiles[sstables[1].Path]
           IN [k \in RecKeys(recs) |-> RecValue(recs, k)] = CompactionResult(prior)

(* C7: a Put, Delete or BatchPut whose WAL append fails returns the error  *)
(* and leaves the memory table, its byte count, the SSTable sequence,      *)
(* nextTable and the SSTable files as they were.                           *)
C7_FailedAppendChangesNothing ==
    [][(up /\ last'.op \in {"Put", "Delete", "BatchPut"} /\ walErr')
          => /\ last'.err
             /\ memtable' = memtable
             /\ sstables' = sstables
             /\ nextTable' = nextTable
             /\ sstFiles' = sstFiles
             /\ bloomFiles' = bloomFiles]_vars

\* a Put met a failing WAL append while the memory table held an entry
C7_Witness ==
    /\ up
    /\ last.op = "Put"
    /\ last.err
    /\ walErr
    /\ DOMAIN memtable.data # {}
    /\ last.key \notin DOMAIN memtable.data

(* C8: when the first source holding a key (the memory table, else the     *)
(* SSTables from the newest to the oldest) holds it with an empty value,   *)
(* Get reports the key absent.                                             *)
RECURSIVE FirstTableHolding(_, _)
FirstTableHolding(i, key) ==
    IF i < 1 THEN 0
    ELSE IF /\ sstables[i].Path \in DOMAIN sstFiles
            /\ key \in RecKeys(sstFiles[sstables[i].Path])
         THEN i
         ELSE FirstTableHolding(i - 1, key)

FirstSourceEmpty(key) ==
    IF key \in DOMAIN memtable.data THEN memtable.data[key] = NoValue
    ELSE LET i == FirstTableHolding(Len(sstables), key)
         IN i # 0 /\ RecValue(sstFiles[sstables[i].Path], key) = NoValue

C8_EmptyValueIsTombstone ==
    up => \A key \in Keys : FirstSourceEmpty(key) => EngineGet(S, key) = Absent

(* C9: a Put or Delete with the empty key returns an error, and the empty  *)
(* key is in no WAL record, not in the memory table and in no SSTable.     *)
EmptyKeyStored ==
    \/ KeyEmpty \in DOMAIN memtable.data
    \/ \E id \in DOMAIN walFiles : \E i \in 1..Len(walFiles[id]) :
           walFiles[id][i].Key = KeyEmpty
    \/ \E path \in DOMAIN sstFiles : KeyEmpty \in RecKeys(sstFiles[path])

C9_EmptyKeyRejected ==
    (last.op \in {"Put", "Delete"} /\ last.key = KeyEmpty)
        => (last.err /\ ~EmptyKeyStored)

(* C10: the byte count of the memory table is the sum of len(key) +        *)
(* len(value) over its entries.                                            *)
RECURSIVE EntryBytes(_, _)
EntryBytes(data, keys) ==
    IF keys = {} THEN 0
    ELSE LET k == CHOOSE x \in keys : TRUE
         IN Len(k) + Len(data[k]) + EntryBytes(data, keys \ {k})

C10_BytesIsSumOfEntries ==
    up => MemSize(memtable) = EntryBytes(memtable.data, DOMAIN memtable.data)

----------------------------------------------------------------------------
(* C11: a flush compacts exactly when the number of SSTables has reached   *)
(* the max_sstables value the engine was constructed with: in a first      *)
(* session without errors no call leaves that many SSTables or more, and a *)
(* compaction has read exactly that many.                                  *)
C11_CompactsAtConfiguredMax ==
    FirstSession =>
        /\ Len(sstables) < maxSSTables
        /\ (prior # <<>> => Len(prior) = maxSSTables)

----------------------------------------------------------------------------
(* C12: a membership filter has no false negatives.  Every key written to  *)
(* an SSTable was added to its filter by WriteSSTable; MightContain is     *)
(* true for each of them on the filter LoadBloomFilter reads back from the *)
(* ".bloom" file, and on the filter the engine holds in memory.            *)

\* the filter of table i belongs to the file at its path: no other table of
\* the sequence was written to that path
OwnsPath(i) ==
    /\ sstables[i].Path \in DOMAIN sstFiles
    /\ \A j \in 1..Len(sstables) : j # i => sstables[j].Path # sstables[i].Path

C12_NoFalseNegatives ==
    /\ \A p \in DOMAIN sstFiles :
          LET b == LoadBloomFilter(bloomFiles, p)
          IN ~b.nil => \A key \in RecKeys(sstFiles[p]) : MightContain(b, key)
    /\ up => \A i \in 1..Len(sstables) :
                (OwnsPath(i) /\ ~sstables[i].Bloom.nil)
                    => \A key \in RecKeys(sstFiles[sstables[i].Path]) :
                           MightContain(sstables[i].Bloom, key)

\* a restarted engine holds a filter decoded from its file, over both keys,
\* that still rejects a key never added
C12_Witness ==
    /\ up
    /\ last.op = "NewEngine"
    /\ \E i \in 1..Len(sstables) :
          /\ OwnsPath(i)
          /\ ~sstables[i].Bloom.nil
          /\ sstables[i].Bloom.k = BloomK
          /\ RecKeys(sstFiles[sstables[i].Path]) = Keys
          /\ ~MightContain(sstables[i].Bloom, KeyEmpty)

----------------------------------------------------------------------------
(* C13: a WAL segment is removed only when its mutations are persisted or  *)
(* recorded in a newer segment: at every moment the most recent            *)
(* acknowledged mutation of every key is held by some SSTable file (the    *)
(* value written, or an empty value for a delete) or is recorded in some   *)
(* WAL segment file.                                                       *)

InSomeSSTable(key, value) ==
    \E p \in DOMAIN sstFiles :
        \E i \in 1..Len(sstFiles[p]) :
            sstFiles[p][i].key = key /\ sstFiles[p][i].value = value

InSomeSegment(key, m) ==
    \E id \in DOMAIN walFiles :
        \E i \in 1..Len(walFiles[id]) :
            LET r == walFiles[id][i]
            IN /\ r.Key = key
               /\ r.Value = m.val
               /\ r.Type = (IF m.kind = "put" THEN PutRecord ELSE DeleteRecord)

C13_WalCoversUnflushedWrites ==
    \A key \in AllKeys :
        acked[key].kind # "none"
            => InSomeSSTable(key, acked[key].val) \/ InSomeSegment(key, acked[key])

----------------------------------------------------------------------------
(* C14: after a successful flush every WAL segment older than the new      *)
(* active segment has been removed: the only segment file is that of the   *)
(* active segment.                                                         *)

\* the call changed the active segment: its flush went through Rotate
C14_FlushLeavesOnlyActiveSegment ==
    [][(up /\ up' /\ ~last'.err /\ segment' # segment)
          => DOMAIN walFiles' = {segment'}]_vars

(* C15: SSTable numbers grow over the whole life of the directory: while   *)
(* the engine runs, nextTable is greater than the number of every SSTable  *)
(* file on disk, so a new SSTable never takes the path of an existing one. *)
C15_NextTablePastEveryFile ==
    up => \A p \in DOMAIN sstFiles : p.n < nextTable

(* C16: after startup the SSTable sequence is in creation order, oldest    *)
(* first, flush outputs and compaction outputs alike.  At the first        *)
(* restart every file was numbered by the first session, in creation       *)
(* order.                                                                  *)
C16_LoadedInGenerationOrder ==
    (up /\ restarts = 1 /\ last.op = "NewEngine")
        => \A i, j \in 1..Len(sstables) :
               i < j => sstables[i].Path.n < sstables[j].Path.n

(* C17: when a compaction completes, the data file and the filter file of  *)
(* every superseded SSTable are gone, the sequence is the one new SSTable, *)
(* and the data and filter files of the new SSTable exist.                 *)
C17_CompactionReplacesTables ==
    (up /\ prior # <<>>)
        => /\ Len(sstables) = 1
           /\ sstables[1].Path \in DOMAIN sstFiles
           /\ sstables[1].Path \in DOMAIN bloomFiles
           /\ \A i \in 1..Len(prior) :
                  prior[i].Path # sstables[1].Path
                      => /\ prior[i].Path \notin DOMAIN sstFiles
                         /\ prior[i].Path \notin DOMAIN bloomFiles

----------------------------------------------------------------------------
(* C18: when writing the SSTable or its filter fails during a flush, the   *)
(* call returns the error, no SSTable data file is left behind, and the    *)
(* SSTable sequence, nextTable and the set of WAL segments are unchanged;  *)
(* the memory table is not replaced by an empty one.                       *)

\* the call returned an error that is not the WAL append's: its flush failed
C18_FailedFlushChangesNothing ==
    [][(up /\ up' /\ last'.op \in {"Put", "Delete", "BatchPut"}
           /\ last'.err /\ ~walErr')
          => /\ sstFiles' = sstFiles
             /\ sstables' = sstables
             /\ nextTable' = nextTable
             /\ segment' = segment
             /\ DOMAIN walFiles' = DOMAIN walFiles
             /\ memtable'.data # EmptyMap]_vars

----------------------------------------------------------------------------
(* C19: WAL appends, rotate and close exclude one another, so that under   *)
(* every interleaving of concurrent callers the writes of one record, and  *)
(* of all the records of one batch, are contiguous in the segment file.    *)

Contiguous(bytes) ==
    \A i, j \in 1..Len(bytes) :
        (i < j /\ bytes[i].id = bytes[j].id)
            => \A k \in i..j : bytes[k].id = bytes[i].id

C19_AppendsAreContiguous ==
    \A id \in DOMAIN walBytes : Contiguous(walBytes[id])

(* C20: with concurrent callers, once no call is in flight every key whose *)
(* Put or BatchPut returned nil is in the memory table or in some SSTable. *)
C20_AckedWritesSurviveFlush ==
    (up /\ \A t \in Threads : pc[t] = "idle")
        => \A key \in ackedKeys :
               \/ key \in DOMAIN memtable.data
               \/ \E p \in DOMAIN sstFiles : key \in RecKeys(sstFiles[p])

----------------------------------------------------------------------------
(* C21: replay tolerates a truncated trailing record.  When the last       *)
(* record of the replayed segment is cut short, Replay returns without     *)
(* error the records before it, in order, and the engine starts with them  *)
(* applied to its memory table.                                            *)

TornTail(file) == Len(file) > 0 /\ "have" \in DOMAIN file[Len(file)]

C21_TruncatedTailTolerated ==
    (last.op = "Replay" /\ TornTail(walFiles[segment]))
        => LET file == walFiles[segment]
           IN /\ ~last.err
              /\ up
              /\ memtable = ApplyRecords(NewMemTable, SubSeq(file, 1, Len(file) - 1))

----------------------------------------------------------------------------
(* C22: Close returns the first error and still runs its later steps: when *)
(* the flush of the memory table fails, the WAL file is closed             *)
(* nevertheless by the time Close returns the error.                       *)

\* the writer carried no error before the call: the error Close returns is
\* the flush's
C22_CloseClosesWalAfterFlushError ==
    [][(up /\ ~walErr /\ last'.op = "Close" /\ last'.err) => ~walOpen']_vars

----------------------------------------------------------------------------
====
